---------------------------- MODULE Spec2Model ----------------------------
(***************************************************************************)
(* A model of src/main.py: the Google-Sheets backed "new site" alert bot.  *)
(*                                                                         *)
(* Text is modelled as a sequence of one-character strings, so that        *)
(* strip / replace / regular-expression search / float parsing / isdigit   *)
(* are computed character by character, as the Python code computes them.  *)
(***************************************************************************)
EXTENDS Integers, Sequences, FiniteSets, TLC

VARIABLES
    \* ---- the program's state (main, GoogleSheetsManager, AsyncScraper) ----
    pc,            \* position of main()
    run,           \* which invocation of the program this is (1, 2, ...)
    sheet,         \* worksheet 0 of the spreadsheet: a sequence of rows
    existing_ids,  \* GoogleSheetsManager.existing_ids
    queue,         \* the asyncio.Queue of run(): page numbers still enqueued
    unfinished,    \* asyncio.Queue._unfinished_tasks (what join() waits on)
    wpc,           \* position of each worker task
    wpage,         \* page_num of each worker
    wdata,         \* page_data of each worker
    lock,          \* AsyncScraper.lock: 0 when free, else the holder
    results,       \* AsyncScraper.results
    found_sites,   \* main's found_sites
    rows_to_add,   \* main's rows_to_add
    slack,         \* whether main constructed its SlackNotifier
    sent,          \* the row lists send_notification was called with
    \* ---- the environment ----
    pages,         \* what the listing serves for each page number
    W,             \* the concurrency width (CONCURRENT_REQUESTS)
    \* ---- history of the current run (observations only) ----
    status,        \* per page: outcome of its fetch ("none" before it ends)
    dequeued,      \* per page: how many times a worker dequeued it
    processed,     \* per page: how many times task_done was called for it
    contrib,       \* per page: the records its worker put into results
    sheet0,        \* the sheet as it was when the run started
    connect_result, \* "none" | "ok" | "raised": lines 33-41 of connect
    load_result,   \* "none" | "ok" | "raised": col_values of the loader
    appended,      \* "none" | "ok" | "failed": this run's append_rows call
    warned,        \* per page: how many logger.warning entries it caused
    prev,          \* the previous run: its candidates, its new rows, the
                   \* outcomes of its loader and of its append
    \* ---- pure-function harnesses ----
    norm_in,       \* a cell value handed to the identifier normalisation
    norm_out,      \* the successive outputs of normalising it
    html_in,       \* a document handed to parse_html
    html_out,      \* what parse_html returned for it
    rec_in,        \* the worksheet and the candidates handed to the reconcile
    rec_out        \* the rows and the known set the reconcile produced

vars == << pc, run, sheet, existing_ids, queue, unfinished, wpc, wpage, wdata,
           lock, results, found_sites, rows_to_add, slack, pages, W, status,
           dequeued, processed, contrib, sheet0, appended, warned, prev,
           sent, connect_result, load_result,
           norm_in, norm_out, html_in, html_out, rec_in, rec_out >>

mainVars == << pc, run, sheet, existing_ids, queue, unfinished, wpc, wpage,
               wdata, lock, results, found_sites, rows_to_add, slack, pages,
               W, status, dequeued, processed, contrib, sheet0, appended, warned,
               prev, sent, connect_result, load_result >>

harnessVars == << norm_in, norm_out, html_in, html_out, rec_in, rec_out >>

-----------------------------------------------------------------------------
(***************************************************************************)
(* Text                                                                    *)
(***************************************************************************)

DigitSeq == << "0", "1", "2", "3", "4", "5", "6", "7", "8", "9" >>

Digits == { DigitSeq[i] : i \in 1..10 }

DigitVal(c) == (CHOOSE i \in 1..10 : DigitSeq[i] = c) - 1

\* Python whitespace, as far as the model's alphabet has any.
Whitespace == { " " }

\* U+00B2, SUPERSCRIPT TWO, written as one element of a text: a character
\* that str.isdigit() takes for a digit although it is no decimal digit, so
\* that \d does not match it and int() and float() reject it.
Sup2 == "sup2"

OtherDigits == { Sup2 }

\* str.isdigit(): non-empty and every character a digit.
isdigit(s) == Len(s) > 0 /\ \A i \in 1..Len(s) : s[i] \in Digits \cup OtherDigits

RECURSIVE lstrip(_)
lstrip(s) ==
    IF s # << >> /\ Head(s) \in Whitespace THEN lstrip(Tail(s)) ELSE s

RECURSIVE rstrip(_)
rstrip(s) ==
    IF s # << >> /\ s[Len(s)] \in Whitespace
    THEN rstrip(SubSeq(s, 1, Len(s) - 1))
    ELSE s

\* str.strip()
strip(s) == rstrip(lstrip(s))

\* str.replace(c, "") for a one-character c
RECURSIVE replace(_, _)
replace(s, c) ==
    IF s = << >> THEN << >>
    ELSE IF Head(s) = c THEN replace(Tail(s), c)
    ELSE << Head(s) >> \o replace(Tail(s), c)

\* The longest prefix of s made of digits.
RECURSIVE DigitPrefix(_)
DigitPrefix(s) ==
    IF s # << >> /\ Head(s) \in Digits
    THEN << Head(s) >> \o DigitPrefix(Tail(s))
    ELSE << >>

\* re.search(r'(\d+)', s).group(1): the leftmost, greedy run of digits;
\* << >> stands for "no match" (a match is never empty).
RECURSIVE re_search_digits(_)
re_search_digits(s) ==
    IF s = << >> THEN << >>
    ELSE IF Head(s) \in Digits THEN DigitPrefix(s)
    ELSE re_search_digits(Tail(s))

\* int() of a digit string
RECURSIVE StrToNat(_)
StrToNat(s) ==
    IF s = << >> THEN 0
    ELSE 10 * StrToNat(SubSeq(s, 1, Len(s) - 1)) + DigitVal(s[Len(s)])

\* str() of a natural number
RECURSIVE NatToStr(_)
NatToStr(n) ==
    IF n < 10 THEN << DigitSeq[n + 1] >>
    ELSE NatToStr(n \div 10) \o << DigitSeq[(n % 10) + 1] >>

\* str() of an integer
IntToStr(n) == IF n < 0 THEN << "-" >> \o NatToStr(0 - n) ELSE NatToStr(n)

RECURSIVE Pow10(_)
Pow10(k) == IF k = 0 THEN 1 ELSE 10 * Pow10(k - 1)

\* The index of the first occurrence of a character of cs in s, or 0.
RECURSIVE IndexOf(_, _)
IndexOf(s, cs) ==
    IF s = << >> THEN 0
    ELSE IF Head(s) \in cs THEN 1
    ELSE LET r == IndexOf(Tail(s), cs) IN IF r = 0 THEN 0 ELSE r + 1

AllDigits(s) == \A i \in 1..Len(s) : s[i] \in Digits

Fail == [ok |-> FALSE, val |-> 0]

(***************************************************************************)
(* int(float(s)): ok is FALSE where Python raises.  float() accepts        *)
(* [ws] [sign] (digits [. [digits]] | . digits) [(e|E) [sign] digits] [ws] *)
(* and int() truncates towards zero.  The value is computed exactly, which *)
(* is what a double gives for the magnitudes the model reaches (below      *)
(* 2^31).  The alphabet of the model has no "_", and cannot spell inf/nan. *)
(***************************************************************************)
int_float(s) ==
    LET t     == strip(s)
        signed == t # << >> /\ Head(t) \in {"-", "+"}
        neg   == t # << >> /\ Head(t) = "-"
        body  == IF signed THEN Tail(t) ELSE t
        ePos  == IndexOf(body, {"e", "E"})
        mant  == IF ePos = 0 THEN body ELSE SubSeq(body, 1, ePos - 1)
        expo  == IF ePos = 0 THEN << >> ELSE SubSeq(body, ePos + 1, Len(body))
        eSigned == expo # << >> /\ Head(expo) \in {"-", "+"}
        eNeg  == expo # << >> /\ Head(expo) = "-"
        eDig  == IF eSigned THEN Tail(expo) ELSE expo
        dot   == IndexOf(mant, {"."})
        ip    == IF dot = 0 THEN mant ELSE SubSeq(mant, 1, dot - 1)
        fp    == IF dot = 0 THEN << >> ELSE SubSeq(mant, dot + 1, Len(mant))
        mantOk == AllDigits(ip) /\ AllDigits(fp) /\ Len(ip) + Len(fp) > 0
        expOk == ePos = 0 \/ (eDig # << >> /\ AllDigits(eDig))
    IN  IF ~(mantOk /\ expOk) THEN Fail
        ELSE LET M == StrToNat(ip \o fp)
                 E == IF ePos = 0 THEN 0
                      ELSE IF eNeg THEN 0 - StrToNat(eDig) ELSE StrToNat(eDig)
                 k == E - Len(fp)
                 mag == IF k >= 0 THEN M * Pow10(k) ELSE M \div Pow10(0 - k)
             IN  [ok |-> TRUE, val |-> IF neg THEN 0 - mag ELSE mag]

-----------------------------------------------------------------------------
(***************************************************************************)
(* GoogleSheetsManager: the worksheet and the known identifiers            *)
(***************************************************************************)

\* The header row _ensure_headers inserts.
HeaderRow ==
    << << "s", "i", "t", "e", "_", "i", "d" >>,
       << "U", "R", "L" >>,
       << "f", "f", "_", "s", "i", "t", "e" >>,
       << "d", "o", "n", "e", " ", "o", "r", " ", "n", "o", "t" >> >>

\* The detail link main builds: the fixed prefix followed by site_id.
LinkPrefix ==
    << "h", "t", "t", "p", "s", ":", "/", "/", "p", "r", "i", "s", "y", "n", "c", ".", "m", "e", "/", "a", "d", "m", "i", "n", "/", "f", "e", "t", "c", "h", "F", "i", "e", "l", "d", "/", "s", "i", "t", "e", "?", "s", "i", "t", "e", "_", "i", "d", "=" >>

RECURSIVE TrimTrailingEmpty(_)
TrimTrailingEmpty(cells) ==
    IF cells # << >> /\ cells[Len(cells)] = << >>
    THEN TrimTrailingEmpty(SubSeq(cells, 1, Len(cells) - 1))
    ELSE cells

\* gspread row_values(1): the first row without its trailing empty cells.
row_values_1(sh) == IF sh = << >> THEN << >> ELSE TrimTrailingEmpty(sh[1])

\* gspread col_values(1): column A without its trailing empty cells.
col_values_1(sh) ==
    TrimTrailingEmpty([i \in 1..Len(sh) |->
                          IF sh[i] = << >> THEN << >> ELSE sh[i][1]])

\* gspread insert_row(row, index=1)
insert_row_1(sh, row) == << row >> \o sh

\* A write that replaces the content of the worksheet by the new rows.
append_rows_overwrites(sh, rows) == << HeaderRow >> \o rows

\* An append that stops before the last row of the batch.
append_rows_partial(sh, rows) == sh \o SubSeq(rows, 1, Len(rows) - 1)

\* gspread append_rows(rows): below the existing content.
append_rows(sh, rows) == sh \o rows

NoId == [add |-> FALSE, id |-> << >>]

\* The body of the loop of _load_existing_ids for one cell value: whether an
\* identifier is added to existing_ids, and which.
clean_id(val) ==
    LET raw_val == strip(val)
        match   == re_search_digits(replace(replace(raw_val, ","), "."))
        f       == int_float(raw_val)
    IN  IF raw_val = << >> THEN NoId
        ELSE IF match = << >> THEN NoId
        ELSE [add |-> TRUE, id |-> IF f.ok THEN IntToStr(f.val) ELSE match]

\* The loop of _load_existing_ids over the values below the header.
RECURSIVE add_ids(_, _)
add_ids(vals, ids) ==
    IF vals = << >> THEN ids
    ELSE LET c == clean_id(Head(vals))
         IN  add_ids(Tail(vals), IF c.add THEN ids \cup {c.id} ELSE ids)

\* _load_existing_ids when col_values succeeds: the first value is skipped.
load_existing_ids(sh, ids) ==
    LET col_a_values == col_values_1(sh)
    IN  IF col_a_values = << >> THEN ids ELSE add_ids(Tail(col_a_values), ids)

-----------------------------------------------------------------------------
(***************************************************************************)
(* AsyncScraper.parse_html and the reconcile step of main                  *)
(*                                                                         *)
(* A document is the sequence of the rows its markup yields under the      *)
(* selector "#ff-grid table.items tbody tr", each row the sequence of the  *)
(* texts of its td cells.  Markup that has no such row is << >>.           *)
(***************************************************************************)

\* get_text(strip=True) of a cell that holds one text node.
get_text(cell) == strip(cell)

\* A parse_row that tests the seller cell without trimming it.
parse_row_untrimmed_seller(cols) ==
    IF Len(cols) >= 3
    THEN IF cols[3] = << >>
         THEN << [ID |-> get_text(cols[1]), Site |-> get_text(cols[2])] >>
         ELSE << >>
    ELSE << >>

\* The body of the loop of parse_html for one row: the records it appends.
parse_row(cols) ==
    IF Len(cols) >= 3
    THEN LET seller_name == get_text(cols[3])
         IN  IF seller_name = << >>
             THEN << [ID |-> get_text(cols[1]), Site |-> get_text(cols[2])] >>
             ELSE << >>
    ELSE << >>

RECURSIVE parse_html(_)
parse_html(html) ==
    IF html = << >> THEN << >>
    ELSE parse_row(Head(html)) \o parse_html(Tail(html))

\* The sort key of main: int(ID) if ID.isdigit() else 0.
sort_key(x) == IF isdigit(x.ID) THEN StrToNat(x.ID) ELSE 0

\* The sort key of main raises ValueError: isdigit() lets the text through
\* and int() rejects it.
key_raises(x) == isdigit(x.ID) /\ ~AllDigits(x.ID)

\* list.sort computes the key of every element first; it raises, and leaves
\* the list as it was, when a key raises.
sort_raises(sites) == \E i \in DOMAIN sites : key_raises(sites[i])

\* list.sort(key=sort_key, reverse=False): stable, ascending.
RECURSIVE insert_sorted(_, _)
insert_sorted(sorted, x) ==
    IF sorted = << >> THEN << x >>
    ELSE IF sort_key(sorted[Len(sorted)]) <= sort_key(x) THEN Append(sorted, x)
    ELSE Append(insert_sorted(SubSeq(sorted, 1, Len(sorted) - 1), x),
                sorted[Len(sorted)])

RECURSIVE sort_sites(_)
sort_sites(sites) ==
    IF sites = << >> THEN << >>
    ELSE insert_sorted(sort_sites(SubSeq(sites, 1, Len(sites) - 1)),
                       sites[Len(sites)])

\* The row main builds for a new site: [site_id, item['Site'], link].
new_row(site_id, item) == << site_id, item.Site, LinkPrefix \o site_id >>

\* Whether main takes a site for new: its stripped ID is not in existing_ids.
is_new(site_id, ids) == site_id \notin ids

\* The filter loop of main over the sorted sites: rows_to_add and
\* existing_ids as the loop leaves them.
RECURSIVE filter_new(_, _, _)
filter_new(sites, rows, ids) ==
    IF sites = << >> THEN [rows |-> rows, ids |-> ids]
    ELSE LET item    == Head(sites)
             site_id == strip(item.ID)
         IN  IF is_new(site_id, ids)
             THEN filter_new(Tail(sites), Append(rows, new_row(site_id, item)),
                             ids \cup {site_id})
             ELSE filter_new(Tail(sites), rows, ids)

\* Step 3 of main: sort, then filter.
reconcile_sites(sites, ids) == filter_new(sort_sites(sites), << >>, ids)

-----------------------------------------------------------------------------
(***************************************************************************)
(* Bounds and inputs                                                       *)
(***************************************************************************)

START_PAGE == 1

\* The last page of the range (92 in the source), scaled down.
END_PAGE == 2

\* The largest concurrency width tried (20 in the source).
MaxW == 2

\* How many times in a row the program is invoked.
MaxRuns == 2

Pages == START_PAGE..END_PAGE

\* Documents the listing may serve.  DocA: one unassigned site, one with a
\* seller, and a row of two cells.  DocB: an identifier with padding and a
\* leading zero next to a seller cell of white space only, and the
\* identifier 7 unassigned.
DocA == << << << "8" >>, << "u" >>, << >> >>,
           << << "7" >>, << "u" >>, << "s" >> >>,
           << << "9" >>, << "v" >> >> >>

DocB == << << << " ", "0", "7", " " >>, << "u" >>, << " " >> >>,
           << << "7" >>, << "v" >>, << >> >> >>

\* Markup without a row of the grid: unparsable, or an empty listing.
DocNone == << >>

\* DocC: the unassigned site 8 of DocA once more, under another display URL.
DocC == << << << "8" >>, << "w" >>, << >> >> >>

\* The widths tried: a single worker, and the largest.
Widths == { 1, MaxW }

\* The worksheet before the first run: brand new, or a header and one row
\* written by an earlier run.
NewSheet == << >>

UsedSheet ==
    << HeaderRow, new_row(<< "7" >>, [ID |-> << "7" >>, Site |-> << "u" >>]) >>

NoPrev == [batch |-> << >>, appended |-> "none", rows |-> << >>,
           load |-> "none"]

-----------------------------------------------------------------------------
(***************************************************************************)
(* The program: main, connect, run and its workers                         *)
(***************************************************************************)

\* A run that creates one worker task more than the width.
Workers_one_more == 1..(W + 1)

\* The worker tasks run() creates: range(CONCURRENT_REQUESTS).
Workers == 1..W

\* The state of a process that has just been started: nothing of the run
\* exists yet.
fresh_run ==
    /\ existing_ids = {}
    /\ queue = << >>
    /\ unfinished = 0
    /\ wpc = [w \in Workers |-> "none"]
    /\ wpage = [w \in Workers |-> 0]
    /\ wdata = [w \in Workers |-> << >>]
    /\ lock = 0
    /\ results = << >>
    /\ found_sites = << >>
    /\ rows_to_add = << >>
    /\ slack = FALSE
    /\ sent = << >>
    /\ connect_result = "none"
    /\ load_result = "none"
    /\ status = [p \in Pages |-> "none"]
    /\ dequeued = [p \in Pages |-> 0]
    /\ processed = [p \in Pages |-> 0]
    /\ contrib = [p \in Pages |-> << >>]
    /\ appended = "none"
    /\ warned = [p \in Pages |-> 0]

HarnessIdle ==
    /\ norm_in = << >>
    /\ norm_out = << >>
    /\ html_in = << >>
    /\ html_out = << >>
    /\ rec_in = << >>
    /\ rec_out = << >>

InitWith(widths, docs, sheets) ==
    /\ W \in widths
    /\ pages \in [Pages -> docs]
    /\ sheet \in sheets
    /\ sheet0 = sheet
    /\ run = 1
    /\ prev = NoPrev
    /\ pc = "connect"
    /\ fresh_run
    /\ HarnessIdle

\* A main that swallows the exception of connect and goes on to scrape.
connect_raises_ignored ==
    /\ pc = "connect"
    /\ pc' = "run"
    /\ connect_result' = "raised"
    /\ UNCHANGED << run, sheet, existing_ids, queue, unfinished, wpc, wpage,
                    wdata, lock, results, found_sites, rows_to_add, slack,
                    pages, W, status, dequeued, processed, contrib, sheet0,
                    appended, warned, prev, load_result, sent >>
    /\ UNCHANGED harnessVars

\* connect, lines 33-41: the credentials, authorize or open raise; connect
\* logs and re-raises, and main returns.
connect_raises ==
    /\ pc = "connect"
    /\ pc' = "aborted"
    /\ UNCHANGED << run, sheet, existing_ids, queue, unfinished, wpc, wpage,
                    wdata, lock, results, found_sites, rows_to_add, slack,
                    pages, W, status, dequeued, processed, contrib, sheet0,
                    appended, warned, prev >>
    /\ connect_result' = "raised"
    /\ UNCHANGED << load_result, sent >>
    /\ UNCHANGED harnessVars

\* connect, lines 33-41 succeed.
connect_ok ==
    /\ pc = "connect"
    /\ pc' = "headers"
    /\ UNCHANGED << run, sheet, existing_ids, queue, unfinished, wpc, wpage,
                    wdata, lock, results, found_sites, rows_to_add, slack,
                    pages, W, status, dequeued, processed, contrib, sheet0,
                    appended, warned, prev >>
    /\ connect_result' = "ok"
    /\ UNCHANGED << load_result, sent >>
    /\ UNCHANGED harnessVars

\* _ensure_headers: the header row is inserted when row 1 has no value.
ensure_headers ==
    /\ pc = "headers"
    /\ sheet' = IF row_values_1(sheet) = << >>
                THEN insert_row_1(sheet, HeaderRow)
                ELSE sheet
    /\ pc' = "load"
    /\ UNCHANGED << run, existing_ids, queue, unfinished, wpc, wpage,
                    wdata, lock, results, found_sites, rows_to_add, slack,
                    pages, W, status, dequeued, processed, contrib, sheet0,
                    appended, warned, prev >>
    /\ UNCHANGED << sent, connect_result, load_result >>
    /\ UNCHANGED harnessVars

\* _ensure_headers when row_values or insert_row raises: logged, swallowed.
ensure_headers_raises ==
    /\ pc = "headers"
    /\ pc' = "load"
    /\ UNCHANGED << run, sheet, existing_ids, queue, unfinished, wpc, wpage,
                    wdata, lock, results, found_sites, rows_to_add, slack,
                    pages, W, status, dequeued, processed, contrib, sheet0,
                    appended, warned, prev >>
    /\ UNCHANGED << sent, connect_result, load_result >>
    /\ UNCHANGED harnessVars

\* _load_existing_ids
load_ids ==
    /\ pc = "load"
    /\ existing_ids' = load_existing_ids(sheet, existing_ids)
    /\ pc' = "run"
    /\ UNCHANGED << run, sheet, queue, unfinished, wpc, wpage,
                    wdata, lock, results, found_sites, rows_to_add, slack,
                    pages, W, status, dequeued, processed, contrib, sheet0,
                    appended, warned, prev >>
    /\ load_result' = "ok"
    /\ UNCHANGED << connect_result, sent >>
    /\ UNCHANGED harnessVars

\* _load_existing_ids when col_values raises: logged, swallowed.
load_ids_raises ==
    /\ pc = "load"
    /\ pc' = "run"
    /\ UNCHANGED << run, sheet, existing_ids, queue, unfinished, wpc, wpage,
                    wdata, lock, results, found_sites, rows_to_add, slack,
                    pages, W, status, dequeued, processed, contrib, sheet0,
                    appended, warned, prev >>
    /\ load_result' = "raised"
    /\ UNCHANGED << connect_result, sent >>
    /\ UNCHANGED harnessVars

\* The pages run() enqueues: range(START_PAGE, END_PAGE + 1).
page_range == [i \in 1..(END_PAGE - START_PAGE + 1) |-> START_PAGE + i - 1]

\* run, lines 177-186: fill the queue, create the worker tasks, reach join.
run_start ==
    /\ pc = "run"
    /\ queue' = page_range
    /\ unfinished' = Len(page_range)
    /\ wpc' = [w \in Workers |-> "get"]
    /\ pc' = "join"
    /\ UNCHANGED << run, sheet, existing_ids, wpage,
                    wdata, lock, results, found_sites, rows_to_add, slack,
                    pages, W, status, dequeued, processed, contrib, sheet0,
                    appended, warned, prev >>
    /\ UNCHANGED << sent, connect_result, load_result >>
    /\ UNCHANGED harnessVars

\* queue.get(): the page number handed out, and the queue it leaves.
queue_front(q) == Head(q)

\* A get that hands the page out without taking it off the queue.
queue_rest_keeps(q) == q

queue_rest(q) == Tail(q)

\* worker, line 167: await queue.get() returns once the queue holds a page.
worker_get(w) ==
    /\ pc = "join"
    /\ wpc[w] = "get"
    /\ queue # << >>
    /\ wpage' = [wpage EXCEPT ![w] = queue_front(queue)]
    /\ queue' = queue_rest(queue)
    /\ dequeued' = [dequeued EXCEPT ![queue_front(queue)] = @ + 1]
    /\ wpc' = [wpc EXCEPT ![w] = "fetch"]
    /\ UNCHANGED << pc, run, sheet, existing_ids, unfinished, wdata, lock,
                    results, found_sites, rows_to_add, slack, pages, W,
                    status, processed, contrib, sheet0, appended, warned,
                    prev >>
    /\ UNCHANGED << sent, connect_result, load_result >>
    /\ UNCHANGED harnessVars

\* The failure escapes fetch_page and ends the worker task.
after_no_html_crashes == "crashed"

\* The worker goes back to queue.get without calling task_done.
after_no_html_skips_task_done == "get"

\* Where the worker stands after fetch_page returned None for its page.
after_no_html == "task_done"

\* worker, lines 168-171: fetch_page returns the body of a 200 response and
\* parse_html extracts its records; without records the worker goes straight
\* to task_done.
fetch_200(w) ==
    /\ pc = "join"
    /\ wpc[w] = "fetch"
    /\ status' = [status EXCEPT ![wpage[w]] = "200"]
    /\ LET page_data == parse_html(pages[wpage[w]])
       IN  /\ wdata' = [wdata EXCEPT ![w] = page_data]
           /\ wpc' = [wpc EXCEPT ![w] = IF page_data # << >> THEN "lock"
                                         ELSE "task_done"]
    /\ UNCHANGED << pc, run, sheet, existing_ids, queue, unfinished, wpage,
                    lock, results, found_sites, rows_to_add, slack, pages, W,
                    dequeued, processed, contrib, sheet0, appended, warned,
                    prev >>
    /\ UNCHANGED << sent, connect_result, load_result >>
    /\ UNCHANGED harnessVars

\* fetch_page, lines 142-143 and 146: a 302 is logged as a warning; None.
fetch_302(w) ==
    /\ pc = "join"
    /\ wpc[w] = "fetch"
    /\ status' = [status EXCEPT ![wpage[w]] = "302"]
    /\ warned' = [warned EXCEPT ![wpage[w]] = @ + 1]
    /\ wdata' = [wdata EXCEPT ![w] = << >>]
    /\ wpc' = [wpc EXCEPT ![w] = after_no_html]
    /\ UNCHANGED << pc, run, sheet, existing_ids, queue, unfinished, wpage,
                    lock, results, found_sites, rows_to_add, slack, pages, W,
                    dequeued, processed, contrib, sheet0, appended, prev >>
    /\ UNCHANGED << sent, connect_result, load_result >>
    /\ UNCHANGED harnessVars

\* fetch_page, lines 144-146: a redirect other than 302 ("other_3xx"), or any
\* other status or an exception of the request ("failed": a 500, a timeout,
\* a reset), gives None, and nothing is logged.
fetch_fails(w) ==
    /\ pc = "join"
    /\ wpc[w] = "fetch"
    /\ \E outcome \in {"other_3xx", "failed"} :
           status' = [status EXCEPT ![wpage[w]] = outcome]
    /\ wdata' = [wdata EXCEPT ![w] = << >>]
    /\ wpc' = [wpc EXCEPT ![w] = after_no_html]
    /\ UNCHANGED << pc, run, sheet, existing_ids, queue, unfinished, wpage,
                    lock, results, found_sites, rows_to_add, slack, pages, W,
                    dequeued, processed, contrib, sheet0, appended, warned,
                    prev >>
    /\ UNCHANGED << sent, connect_result, load_result >>
    /\ UNCHANGED harnessVars

\* worker, line 172: async with self.lock, entered when the lock is free.
worker_acquire(w) ==
    /\ pc = "join"
    /\ wpc[w] = "lock"
    /\ lock = 0
    /\ lock' = w
    /\ wpc' = [wpc EXCEPT ![w] = "extend"]
    /\ UNCHANGED << pc, run, sheet, existing_ids, queue, unfinished, wpage,
                    wdata, results, found_sites, rows_to_add, slack, pages, W,
                    status, dequeued, processed, contrib, sheet0, appended,
                    warned, prev >>
    /\ UNCHANGED << sent, connect_result, load_result >>
    /\ UNCHANGED harnessVars

\* list.extend
extend(list, more) == list \o more

\* worker, line 173: self.results.extend(page_data), and the lock is left.
worker_extend(w) ==
    /\ pc = "join"
    /\ wpc[w] = "extend"
    /\ results' = extend(results, wdata[w])
    /\ contrib' = [contrib EXCEPT ![wpage[w]] = @ \o wdata[w]]
    /\ lock' = 0
    /\ wpc' = [wpc EXCEPT ![w] = "task_done"]
    /\ UNCHANGED << pc, run, sheet, existing_ids, queue, unfinished, wpage,
                    wdata, found_sites, rows_to_add, slack, pages, W,
                    status, dequeued, processed, sheet0, appended, warned,
                    prev >>
    /\ UNCHANGED << sent, connect_result, load_result >>
    /\ UNCHANGED harnessVars

\* worker, line 174: queue.task_done(), and the loop starts over.
worker_task_done(w) ==
    /\ pc = "join"
    /\ wpc[w] = "task_done"
    /\ unfinished' = unfinished - 1
    /\ processed' = [processed EXCEPT ![wpage[w]] = @ + 1]
    /\ wpc' = [wpc EXCEPT ![w] = "get"]
    /\ UNCHANGED << pc, run, sheet, existing_ids, queue, wpage, wdata, lock,
                    results, found_sites, rows_to_add, slack, pages, W,
                    status, dequeued, contrib, sheet0, appended, warned,
                    prev >>
    /\ UNCHANGED << sent, connect_result, load_result >>
    /\ UNCHANGED harnessVars

\* A join that only waits for the queue to be empty.
join_done_when_empty == queue = << >>

\* What queue.join() waits for: every put has been matched by a task_done.
join_done == unfinished = 0

\* run, lines 187-189, and main, line 228: join returns, the workers are
\* cancelled, and run returns self.results to main.
run_join ==
    /\ pc = "join"
    /\ join_done
    /\ wpc' = [w \in Workers |-> "cancelled"]
    /\ found_sites' = results
    /\ pc' = "reconcile"
    /\ UNCHANGED << run, sheet, existing_ids, queue, unfinished, wpage, wdata,
                    lock, results, rows_to_add, slack, pages, W, status,
                    dequeued, processed, contrib, sheet0, appended, warned,
                    prev >>
    /\ UNCHANGED << sent, connect_result, load_result >>
    /\ UNCHANGED harnessVars

\* main, lines 232-252: found_sites (the very list of the scraper) is sorted
\* in place, then filtered against existing_ids.  When the sort raises, the
\* exception leaves main and the program dies.
reconcile ==
    /\ pc = "reconcile"
    /\ IF sort_raises(found_sites)
       THEN /\ pc' = "crashed"
            /\ UNCHANGED << rows_to_add, existing_ids, found_sites, results >>
       ELSE /\ LET r == reconcile_sites(found_sites, existing_ids)
               IN  /\ rows_to_add' = r.rows
                   /\ existing_ids' = r.ids
            /\ found_sites' = sort_sites(found_sites)
            /\ results' = sort_sites(found_sites)
            /\ pc' = "save"
    /\ UNCHANGED << run, sheet, queue, unfinished, wpc, wpage, wdata, lock,
                    slack, pages, W, status, dequeued, processed, contrib,
                    sheet0, appended, warned, prev >>
    /\ UNCHANGED << sent, connect_result, load_result >>
    /\ UNCHANGED harnessVars

\* main, line 255 with no new row: nothing is written, main ends.
save_nothing ==
    /\ pc = "save"
    /\ rows_to_add = << >>
    /\ pc' = "done"
    /\ UNCHANGED << run, sheet, existing_ids, queue, unfinished, wpc, wpage,
                    wdata, lock, results, found_sites, rows_to_add, slack,
                    pages, W, status, dequeued, processed, contrib, sheet0,
                    appended, warned, prev >>
    /\ UNCHANGED << sent, connect_result, load_result >>
    /\ UNCHANGED harnessVars

\* main, lines 255-260: append_new_sites appends the rows; the SlackNotifier
\* is constructed, and main ends there.
save_rows ==
    /\ pc = "save"
    /\ rows_to_add # << >>
    /\ sheet' = append_rows(sheet, rows_to_add)
    /\ appended' = "ok"
    /\ slack' = TRUE
    /\ pc' = "done"
    /\ UNCHANGED << run, existing_ids, queue, unfinished, wpc, wpage,
                    wdata, lock, results, found_sites, rows_to_add,
                    pages, W, status, dequeued, processed, contrib, sheet0,
                    warned, prev >>
    /\ UNCHANGED << sent, connect_result, load_result >>
    /\ UNCHANGED harnessVars

\* main, lines 255-260 when append_rows raises: logged, swallowed.
save_rows_raises ==
    /\ pc = "save"
    /\ rows_to_add # << >>
    /\ appended' = "failed"
    /\ slack' = TRUE
    /\ pc' = "done"
    /\ UNCHANGED << run, sheet, existing_ids, queue, unfinished, wpc, wpage,
                    wdata, lock, results, found_sites, rows_to_add,
                    pages, W, status, dequeued, processed, contrib, sheet0,
                    warned, prev >>
    /\ UNCHANGED << sent, connect_result, load_result >>
    /\ UNCHANGED harnessVars

\* The program is invoked again: a new process, the same spreadsheet, the
\* same listing.
next_run ==
    /\ pc \in {"done", "aborted", "crashed"}
    /\ run < MaxRuns
    /\ run' = run + 1
    /\ prev' = [batch |-> found_sites, appended |-> appended,
                rows |-> rows_to_add, load |-> load_result]
    /\ sheet0' = sheet
    /\ pc' = "connect"
    /\ existing_ids' = {}
    /\ queue' = << >>
    /\ unfinished' = 0
    /\ wpc' = [w \in Workers |-> "none"]
    /\ wpage' = [w \in Workers |-> 0]
    /\ wdata' = [w \in Workers |-> << >>]
    /\ lock' = 0
    /\ results' = << >>
    /\ found_sites' = << >>
    /\ rows_to_add' = << >>
    /\ slack' = FALSE
    /\ sent' = << >>
    /\ connect_result' = "none"
    /\ load_result' = "none"
    /\ status' = [p \in Pages |-> "none"]
    /\ dequeued' = [p \in Pages |-> 0]
    /\ processed' = [p \in Pages |-> 0]
    /\ contrib' = [p \in Pages |-> << >>]
    /\ appended' = "none"
    /\ warned' = [p \in Pages |-> 0]
    /\ UNCHANGED << sheet, pages, W >>
    /\ UNCHANGED harnessVars

Next ==
    \/ connect_raises
    \/ connect_ok
    \/ ensure_headers
    \/ ensure_headers_raises
    \/ load_ids
    \/ load_ids_raises
    \/ run_start
    \/ \E w \in Workers : worker_get(w)
    \/ \E w \in Workers : fetch_200(w)
    \/ \E w \in Workers : fetch_302(w)
    \/ \E w \in Workers : fetch_fails(w)
    \/ \E w \in Workers : worker_acquire(w)
    \/ \E w \in Workers : worker_extend(w)
    \/ \E w \in Workers : worker_task_done(w)
    \/ run_join
    \/ reconcile
    \/ save_nothing
    \/ save_rows
    \/ save_rows_raises

\* One invocation of the program on a spreadsheet in use, every width, every
\* interleaving of the workers.
Init == InitWith(Widths, { DocA, DocB, DocNone }, { UsedSheet })

Spec == Init /\ [][Next]_vars

\* One invocation on pages that list the same identifier under two display
\* URLs, every width, every interleaving of the workers.
InitOrder == InitWith(Widths, { DocA, DocC }, { UsedSheet })

SpecOrder == InitOrder /\ [][Next]_vars

\* One invocation under the scheduling of the event loop: a task that can
\* take a step eventually takes one, and a request eventually ends, with a
\* response or with an exception (the client's timeout at the latest).
InitFair == InitWith(Widths, { DocA, DocNone }, { UsedSheet })

\* One step of the loop of a worker task.
worker_step(w) ==
    \/ worker_get(w)
    \/ fetch_200(w)
    \/ fetch_302(w)
    \/ fetch_fails(w)
    \/ worker_acquire(w)
    \/ worker_extend(w)
    \/ worker_task_done(w)

SpecFair ==
    /\ InitFair
    /\ [][Next]_vars
    /\ WF_vars(\E w \in Workers : worker_step(w))
    /\ WF_vars(run_join)

\* Successive invocations of the program on the same spreadsheet, with a
\* single worker.
InitRuns == InitWith({ 1 }, { DocA, DocB }, { NewSheet, UsedSheet })

NextRuns == Next \/ next_run

SpecRuns == InitRuns /\ [][NextRuns]_vars

-----------------------------------------------------------------------------
(***************************************************************************)
(* The pure functions on their own: each specification below draws an      *)
(* input from a bounded set and applies the function to it, the program    *)
(* itself standing still.                                                  *)
(***************************************************************************)

\* The longest cell value tried.
MaxCellLen == 3

\* The most rows a document has.
MaxRows == 2

\* The most candidates handed to the reconcile.
MaxCands == 3

MainIdle ==
    /\ W = 1
    /\ pages = [p \in Pages |-> << >>]
    /\ sheet = << >>
    /\ sheet0 = << >>
    /\ run = 1
    /\ prev = NoPrev
    /\ pc = "idle"
    /\ fresh_run

\* All the sequences over S of length n, and of length at most n.
RECURSIVE SeqsOfLen(_, _)
SeqsOfLen(S, n) ==
    IF n = 0 THEN { << >> }
    ELSE { Append(t, x) : t \in SeqsOfLen(S, n - 1), x \in S }

SeqsUpTo(S, n) == UNION { SeqsOfLen(S, k) : k \in 0..n }

\* ---- the identifier normalisation of _load_existing_ids ----

NormAlphabet == { "0", "3", "7", ".", ",", "-", " ", "x" }

Id3615 == << "3", "6", "1", "5" >>

\* "3615", "3615.0", "3,615", "id=3615text"
NormExamples ==
    { Id3615,
      << "3", "6", "1", "5", ".", "0" >>,
      << "3", ",", "6", "1", "5" >>,
      << "i", "d", "=", "3", "6", "1", "5", "t", "e", "x", "t" >> }

NormInputs == SeqsUpTo(NormAlphabet, MaxCellLen) \cup NormExamples

InitNorm ==
    /\ MainIdle
    /\ norm_in \in NormInputs
    /\ norm_out = << >>
    /\ html_in = << >>
    /\ html_out = << >>
    /\ rec_in = << >>
    /\ rec_out = << >>

\* The cell value is normalised as the loader normalises it.
normalize_cell ==
    /\ norm_out = << >>
    /\ norm_out' = << clean_id(norm_in) >>
    /\ UNCHANGED << norm_in, html_in, html_out, rec_in, rec_out >>
    /\ UNCHANGED mainVars

\* The identifier the loader produced is read back and normalised again.
normalize_again ==
    /\ Len(norm_out) = 1
    /\ norm_out[1].add
    /\ norm_out' = Append(norm_out, clean_id(norm_out[1].id))
    /\ UNCHANGED << norm_in, html_in, html_out, rec_in, rec_out >>
    /\ UNCHANGED mainVars

NextNorm ==
    \/ normalize_cell
    \/ normalize_again

SpecNorm == InitNorm /\ [][NextNorm]_vars

\* ---- parse_html ----

IdCells == { << "7" >>, << " ", "7", " " >> }

UrlCells == { << "u" >>, << "u", " " >> }

SellerCells == { << >>, << " " >>, << "s" >>, << " ", "s" >> }

\* Rows of no, one, two, three and four cells.
RowChoices ==
    { << >> }
    \cup { << i >> : i \in IdCells }
    \cup { << i, u >> : i \in IdCells, u \in { << "u" >> } }
    \cup { << i, u, s >> : i \in IdCells, u \in UrlCells, s \in SellerCells }
    \cup { << i, << "u" >>, s, << "d" >> >> : i \in IdCells, s \in SellerCells }

InitParse ==
    /\ MainIdle
    /\ html_in \in SeqsUpTo(RowChoices, MaxRows)
    /\ html_out = << >>
    /\ norm_in = << >>
    /\ norm_out = << >>
    /\ rec_in = << >>
    /\ rec_out = << >>

\* parse_html is called on the document.
call_parse_html ==
    /\ html_out = << >>
    /\ html_out' = << parse_html(html_in) >>
    /\ UNCHANGED << norm_in, norm_out, html_in, rec_in, rec_out >>
    /\ UNCHANGED mainVars

NextParse == call_parse_html

SpecParse == InitParse /\ [][NextParse]_vars

\* ---- the reconcile step of main, against a loaded known set ----

Id100 == << "1", "0", "0" >>

Id101 == << "1", "0", "1" >>

Id102 == << "1", "0", "2" >>

Id102dot0 == << "1", "0", "2", ".", "0" >>

Url1 == << "u", "1" >>

Url2 == << "u", "2" >>

\* A worksheet whose loaded known set is {"100", "101"}.
KnownSheet ==
    << HeaderRow,
       new_row(Id100, [ID |-> Id100, Site |-> Url1]),
       new_row(Id101, [ID |-> Id101, Site |-> Url1]) >>

\* Candidates as parse_html emits them: the cell texts, trimmed.
CandChoices ==
    { [ID |-> Id100, Site |-> Url1],
      [ID |-> Id102, Site |-> Url2],
      [ID |-> Id102dot0, Site |-> Url2],
      [ID |-> << "x" >>, Site |-> Url1],
      [ID |-> << Sup2 >>, Site |-> Url1],
      [ID |-> << >>, Site |-> Url1] }

\* Scenario A: the candidates 100/u1, 102/u2, 102.0/u2.
ScenarioA ==
    << [ID |-> Id100, Site |-> Url1],
       [ID |-> Id102, Site |-> Url2],
       [ID |-> Id102dot0, Site |-> Url2] >>

InitReconcile ==
    /\ MainIdle
    /\ rec_in \in [sheet : { KnownSheet, << HeaderRow >> },
                   cands : SeqsUpTo(CandChoices, MaxCands)]
    /\ rec_out = << >>
    /\ norm_in = << >>
    /\ norm_out = << >>
    /\ html_in = << >>
    /\ html_out = << >>

\* The known set is loaded from the worksheet and the candidates are
\* reconciled against it, as connect and main do in a run; raised tells that
\* the sort raised, and then main got no further.
call_reconcile ==
    /\ rec_out = << >>
    /\ \E known \in { load_existing_ids(rec_in.sheet, {}) } :
           rec_out' =
               << [known  |-> known,
                   raised |-> sort_raises(rec_in.cands),
                   new    |-> IF sort_raises(rec_in.cands)
                              THEN [rows |-> << >>, ids |-> known]
                              ELSE reconcile_sites(rec_in.cands, known)] >>
    /\ UNCHANGED << norm_in, norm_out, html_in, html_out, rec_in >>
    /\ UNCHANGED mainVars

NextReconcile == call_reconcile

SpecReconcile == InitReconcile /\ [][NextReconcile]_vars

-----------------------------------------------------------------------------
(***************************************************************************)
(* Properties                                                              *)
(***************************************************************************)

Range(seq) == { seq[i] : i \in DOMAIN seq }

Count(seq, x) == Cardinality({ i \in DOMAIN seq : seq[i] = x })

\* The two sequences hold the same elements, each as many times.
SameBag(a, b) ==
    /\ Len(a) = Len(b)
    /\ \A x \in Range(a) \cup Range(b) : Count(a, x) = Count(b, x)

IsPrefix(a, b) == Len(a) <= Len(b) /\ SubSeq(b, 1, Len(a)) = a

\* run() has returned to main.
Returned == pc \in {"reconcile", "save", "done"}

NoHtml == {"302", "other_3xx", "failed"}

\* The records of the pages whose fetch gave a 200, page after page.
RECURSIVE RecordsUpTo(_)
RecordsUpTo(p) ==
    IF p < START_PAGE THEN << >>
    ELSE RecordsUpTo(p - 1)
         \o (IF status[p] = "200" THEN parse_html(pages[p]) ELSE << >>)

\* C1: under every interleaving and for every width, no page number is
\* dequeued or processed twice, and once run() has returned every page number
\* of the range has been dequeued, fetched and processed exactly once.
C1_OnePassPerPage ==
    /\ \A p \in Pages : dequeued[p] <= 1 /\ processed[p] <= dequeued[p]
    /\ Returned =>
           \A p \in Pages :
               dequeued[p] = 1 /\ processed[p] = 1 /\ status[p] # "none"

\* C1 happens: the widest pool has drained the range, two workers having
\* taken different pages.
C1_Witness ==
    /\ pc = "reconcile"
    /\ W = MaxW
    /\ Cardinality({ wpage[w] : w \in Workers } \ {0}) >= 2

\* C2: run() returns, and the workers are cancelled, only once every page
\* number has been dequeued and task_done called for it with its records in
\* the accumulator; what it returns holds exactly the records extracted from
\* the pages fetched with a 200, each as many times as extracted.
C2_ReturnsAllRecordsAfterDrain ==
    /\ (Returned \/ \E w \in Workers : wpc[w] = "cancelled") =>
           /\ queue = << >>
           /\ unfinished = 0
           /\ lock = 0
           /\ \A w \in Workers : wpc[w] = "cancelled"
           /\ \A p \in Pages :
                  /\ processed[p] = 1
                  /\ status[p] = "200" => contrib[p] = parse_html(pages[p])
    /\ Returned => SameBag(found_sites, RecordsUpTo(END_PAGE))

\* C2 happens: run() has returned the records of several pages, all fetched
\* by the widest pool.
C2_Witness ==
    /\ pc = "reconcile"
    /\ W = MaxW
    /\ \A p \in Pages : status[p] = "200"
    /\ Cardinality({ p \in Pages : contrib[p] # << >> }) >= 2

\* C3: a page whose fetch fails, or whose markup yields nothing, puts no
\* record into the accumulator; the worker that met the failure is at
\* task_done or back at get; while the pool is not drained no worker is
\* cancelled or dead and some worker can take a step; and once run() has
\* returned, the records of every page fetched with a 200 are in the result.
C3_FailureStaysInItsPage ==
    /\ \A p \in Pages :
           (status[p] \in NoHtml \/ parse_html(pages[p]) = << >>) =>
               contrib[p] = << >>
    /\ pc = "join" =>
           /\ \A w \in Workers :
                  /\ wpc[w] \in {"get", "fetch", "lock", "extend", "task_done"}
                  /\ (wpage[w] # 0 /\ status[wpage[w]] \in NoHtml) =>
                         wpc[w] \in {"task_done", "get"}
           /\ unfinished > 0 =>
                  \E w \in Workers :
                      \/ wpc[w] \in {"fetch", "extend", "task_done"}
                      \/ wpc[w] = "lock" /\ lock = 0
                      \/ wpc[w] = "get" /\ queue # << >>
    /\ Returned =>
           \A p \in Pages :
               status[p] = "200" =>
                   \A x \in Range(parse_html(pages[p])) :
                       x \in Range(found_sites)

\* C3 happens: a single worker met a failed fetch on the first page, went on
\* to the next, and its records are in what run() returned.
C3_Witness ==
    /\ pc = "reconcile"
    /\ W = 1
    /\ status[START_PAGE] \in NoHtml
    /\ status[END_PAGE] = "200"
    /\ contrib[END_PAGE] # << >>
    /\ found_sites # << >>

\* The canonical identifier of a text, as the loader of the known set
\* computes it (add is FALSE when the text has none).
canonical(id) == clean_id(id)

\* C4: the rows the reconcile step takes for new hold at most one record per
\* canonical identifier and none whose canonical identifier is in the known
\* set; with the known set {"100", "101"} and the candidates 100/u1, 102/u2,
\* 102.0/u2 they are exactly the one row of 102/u2.
C4_ReconcileByCanonicalId ==
    rec_out # << >> =>
        LET rows  == rec_out[1].new.rows
            known == rec_out[1].known
        IN  /\ \A i, j \in DOMAIN rows :
                   (i # j /\ canonical(rows[i][1]).add) =>
                       canonical(rows[i][1]) # canonical(rows[j][1])
            /\ \A i \in DOMAIN rows :
                   canonical(rows[i][1]).add =>
                       canonical(rows[i][1]).id \notin known
            /\ (rec_in.sheet = KnownSheet /\ rec_in.cands = ScenarioA) =>
                   rows = << new_row(Id102, [ID |-> Id102, Site |-> Url2]) >>

\* C5: when a run has appended its new rows and the next run loads its known
\* set from the worksheet (header in place) and reconciles the same
\* candidates, the next run takes no row for new.
C5_SecondRunAddsNothing ==
    ( /\ run > 1
      /\ pc \in {"save", "done"}
      /\ prev.appended = "ok"
      /\ sheet0 # << >>
      /\ sheet0[1] = HeaderRow
      /\ load_result = "ok"
      /\ found_sites = prev.batch ) =>
        rows_to_add = << >>

\* C6: in every state of a run the rows the worksheet held when the run
\* started are still there, unchanged, in the same order, and before every
\* other row.
C6_StoredRowsKept == IsPrefix(sheet0, sheet)

\* C6 happens: a run has appended rows to a worksheet that already held rows.
C6_Witness ==
    /\ sheet0 # << >>
    /\ appended = "ok"
    /\ Len(sheet) > Len(sheet0)

\* C7: when connect raises, main has returned: no worker task exists, no page
\* number was dequeued or fetched, the worksheet is as the run found it, no
\* append was attempted and no notification was sent.
C7_ConnectFailureAborts ==
    connect_result = "raised" =>
        /\ pc = "aborted"
        /\ \A w \in Workers : wpc[w] = "none"
        /\ queue = << >>
        /\ \A p \in Pages : dequeued[p] = 0 /\ status[p] = "none"
        /\ sheet = sheet0
        /\ appended = "none"
        /\ rows_to_add = << >>
        /\ sent = << >>

\* C7 happens: connect raised and main returned.
C7_Witness == pc = "aborted" /\ connect_result = "raised"

\* C8: when main ends, send_notification has been called exactly once, with
\* the new rows, if there were any, and not at all otherwise.
C8_NotifiedOncePerNewBatch ==
    pc = "done" =>
        sent = (IF rows_to_add # << >> THEN << rows_to_add >> ELSE << >>)

\* C9: normalising an identifier the loader produced gives that identifier
\* again, and each of "3615", "3615.0", "3,615", "id=3615text" is normalised
\* to "3615".
C9_NormalizationIdempotent ==
    /\ Len(norm_out) = 2 => norm_out[2] = norm_out[1]
    /\ (norm_in \in NormExamples /\ Len(norm_out) >= 1) =>
           norm_out[1] = [add |-> TRUE, id |-> Id3615]

\* Only white space.
Blank(cell) == \A k \in DOMAIN cell : cell[k] \in Whitespace

\* t is the text of cell without the white space around it.
TrimmedTo(cell, t) ==
    \E a \in 1..(Len(cell) + 1) :
        /\ \A k \in 1..(a - 1) : cell[k] \in Whitespace
        /\ \A k \in (a + Len(t))..Len(cell) : cell[k] \in Whitespace
        /\ a + Len(t) - 1 <= Len(cell)
        /\ t = SubSeq(cell, a, a + Len(t) - 1)
        /\ t # << >> => (t[1] \notin Whitespace /\ t[Len(t)] \notin Whitespace)

\* The rows of a document that have three cells or more and a blank third.
Unassigned(html) ==
    { i \in DOMAIN html : Len(html[i]) >= 3 /\ Blank(html[i][3]) }

RECURSIVE InFlightUpTo(_)
InFlightUpTo(p) ==
    IF p < START_PAGE THEN 0
    ELSE InFlightUpTo(p - 1) + (dequeued[p] - processed[p])

InFlight == InFlightUpTo(END_PAGE)

\* C11: in every state the number of page fetches in flight (dequeued, and
\* task_done not yet called) is at most the concurrency width W.
C11_AtMostWInFlight == InFlight >= 0 /\ InFlight <= W

\* C11 happens: as many fetches as the width allows are in flight while a
\* page number still waits in the queue.
C11_Witness ==
    /\ pc = "join"
    /\ InFlight = W
    /\ queue # << >>

\* The statuses of a redirect.
Redirect == {"302", "other_3xx"}

\* C12: every page answered with a redirect, whichever 3xx status it is, was
\* fetched once, put no record into the accumulator and caused exactly one
\* warning; and when every page was answered with a redirect, main ends
\* with no new row and without having written to the worksheet.
C12_EveryRedirectLoggedOnce ==
    /\ \A p \in Pages :
           status[p] \in Redirect =>
               /\ dequeued[p] = 1
               /\ contrib[p] = << >>
               /\ warned[p] = 1
    /\ (pc = "done" /\ \A p \in Pages : status[p] \in Redirect) =>
           /\ rows_to_add = << >>
           /\ sheet = sheet0
           /\ appended = "none"

\* main has not reached the append of its new rows yet.
BeforeSave == {"connect", "headers", "load", "run", "join", "reconcile", "save"}

\* What the append of the run has put below the worksheet.
Written == IF appended = "ok" THEN rows_to_add ELSE << >>

\* C13 as stated: from the start of a run until run() has returned, and
\* indeed until the append, the worksheet is as the run found it; when main
\* ends the worksheet is what the run found followed by all the new rows, or
\* just what the run found.
C13_StoreUntouchedUntilFetchDone ==
    /\ pc \in BeforeSave => sheet = sheet0
    /\ pc \in {"done", "aborted"} => sheet = sheet0 \o Written

\* The worksheet has no value in its first row.
NoFirstRow(sh) == sh = << >> \/ \A k \in DOMAIN sh[1] : sh[1][k] = << >>

\* What a run may have done to the worksheet before its append: nothing, or
\* put the header row above a worksheet that had no value in its first row.
HeaderOnly ==
    \/ sheet = sheet0
    \/ /\ NoFirstRow(sheet0)
       /\ pc # "connect"
       /\ sheet = << HeaderRow >> \o sheet0

\* C13, amended: until the append of a run (so during the whole fetch phase)
\* no data row is written, the only change being the header row put above a
\* worksheet without a first row; and the new rows are written by one append
\* of the whole list, or not at all.
C13_OnlyHeaderBeforeBatch ==
    /\ pc \in BeforeSave => HeaderOnly
    /\ pc = "aborted" => sheet = sheet0
    /\ pc = "crashed" => HeaderOnly
    /\ pc = "done" =>
           \/ sheet = sheet0 \o Written
           \/ /\ NoFirstRow(sheet0)
              /\ sheet = << HeaderRow >> \o sheet0 \o Written
    /\ appended = "failed" => Written = << >>

\* C13 happens: on a new worksheet the header was written before the fetch
\* phase, and the new rows, more than one, were appended as one batch.
C13_Witness ==
    /\ pc = "done"
    /\ sheet0 = << >>
    /\ appended = "ok"
    /\ Len(rows_to_add) >= 2
    /\ sheet = << HeaderRow >> \o rows_to_add

\* The integer value of an identifier: that of a plain string of decimal
\* digits, and 0 for any other text.
IdValue(id) == IF id # << >> /\ AllDigits(id) THEN StrToNat(id) ELSE 0

\* C14: the ordering step gives main its list; the rows taken for new are in
\* ascending order of the integer value of their identifier, a text that is
\* no plain digit string counting as 0; and no candidate is lost in the
\* ordering: each one whose trimmed identifier is not known has a row.
C14_NewRowsAscendingNoneDropped ==
    rec_out # << >> =>
        LET rows  == rec_out[1].new.rows
            known == rec_out[1].known
        IN  /\ ~rec_out[1].raised
            /\ \A i, j \in DOMAIN rows :
                   i < j => IdValue(rows[i][1]) <= IdValue(rows[j][1])
            /\ \A k \in DOMAIN rec_in.cands :
                   strip(rec_in.cands[k].ID) \notin known =>
                       \E i \in DOMAIN rows :
                           rows[i][1] = strip(rec_in.cands[k].ID)

\* The known set a run starts its reconcile step with, on a worksheet that
\* has its header: what the loader made of column A, or nothing when the
\* read raised.
Known0 == IF load_result = "ok" THEN load_existing_ids(sheet0, {}) ELSE {}

\* C15: the rows a run takes for new are a function of the page contents,
\* the fetch outcomes and the known set alone: whatever the width and the
\* interleaving of the workers, they are the rows obtained when the results
\* land in the accumulator page after page (as they do with one worker).
C15_RowsIndependentOfInterleaving ==
    pc \in {"save", "done"} =>
        rows_to_add = reconcile_sites(RecordsUpTo(END_PAGE), Known0).rows

\* C16: whenever the worksheet holds a data row (a row that is not the
\* header), its first row is the header, so the row the loader skips is
\* never a data row.
C16_HeaderAboveData ==
    (\E i \in DOMAIN sheet : sheet[i] # HeaderRow) => sheet[1] = HeaderRow

\* A canonical identifier: a non-empty string of decimal digits.
IsCanonical(id) == id # << >> /\ AllDigits(id)

\* C17: every row the reconcile step takes for new carries a canonical
\* identifier in its first column and in its link, every identifier the step
\* adds to the known set is canonical, and a candidate whose identifier has
\* no digit is neither in a row nor added to the known set.
C17_OnlyCanonicalRowsWritten ==
    rec_out # << >> =>
        LET rows  == rec_out[1].new.rows
            known == rec_out[1].known
            ids   == rec_out[1].new.ids
        IN  /\ \A i \in DOMAIN rows :
                   /\ IsCanonical(rows[i][1])
                   /\ rows[i][3] = LinkPrefix \o rows[i][1]
            /\ \A id \in ids \ known : IsCanonical(id)
            /\ \A k \in DOMAIN rec_in.cands :
                   LET id == rec_in.cands[k].ID
                   IN  (\A c \in DOMAIN id : id[c] \notin Digits) =>
                           /\ id \notin ids \ known
                           /\ \A i \in DOMAIN rows : rows[i][1] # id

\* C18: a run whose append failed has put none of its rows into the
\* worksheet; and the run after it, when it loads its known set from the
\* worksheet, takes for new every identifier the failed run had taken for
\* new and the listing still shows.
C18_FailedAppendRediscovered ==
    /\ appended = "failed" =>
           (sheet = sheet0 \/ sheet = << HeaderRow >> \o sheet0)
    /\ ( /\ run > 1
         /\ prev.appended = "failed"
         /\ load_result = "ok"
         /\ pc \in {"save", "done"} ) =>
           \A i \in DOMAIN prev.rows :
               (\E k \in DOMAIN found_sites :
                    strip(found_sites[k].ID) = prev.rows[i][1]) =>
                   \E j \in DOMAIN rows_to_add :
                       rows_to_add[j][1] = prev.rows[i][1]

\* The identifiers column A of a worksheet holds below its header.
StoredIds(sh) == { sh[i][1] : i \in { k \in 2..Len(sh) : sh[k] # << >> } }

\* C20: in a run that got as far as the reconcile step, whether or not the
\* loader could read the worksheet, no row taken for new carries an
\* identifier that column A held when the run started.
C20_NoRowForStoredId ==
    pc \in {"save", "done"} =>
        \A i \in DOMAIN rows_to_add :
            rows_to_add[i][1] \notin StoredIds(sheet0)

\* C19: once run() waits in queue.join, it eventually returns to main,
\* whatever the fetches end with.
C19_FetchPhaseTerminates == (pc = "join") ~> (pc = "reconcile")

\* C19 happens: run() has returned from the widest pool although a fetch
\* ended without a response and another gave a page.
C19_Witness ==
    /\ pc = "reconcile"
    /\ W = MaxW
    /\ \E p \in Pages : status[p] = "failed"
    /\ \E p \in Pages : status[p] = "200"

=============================================================================
